---- MODULE Spec2Model ----
(***************************************************************************)
(* A model of app/utils_standalone_image_gen.py: the byte-budget image     *)
(* resizer, the two prediction-gateway calls and the two Streamlit render  *)
(* functions, each render pass being one action over st.session_state.     *)
(*                                                                         *)
(* Bytes objects are sequences of byte values 0..255; base64 text is a     *)
(* sequence of alphabet positions 0..63 with 64 standing for '='.           *)
(* Python floats are modelled in fixed point with WidthScale units per     *)
(* pixel, rounding down.  A page calls one of the two render functions;    *)
(* the Download and Select buttons are left out.                           *)
(***************************************************************************)
EXTENDS Integers, Sequences, FiniteSets, TLC

(***************************************************************************)
(* Bounds of the model.                                                    *)
(***************************************************************************)
\* fixed-point units per pixel for the float variable `width`
WidthScale == 4
\* largest size in bytes a PNG re-encoding is allowed to have
MaxEncodedSize == 4
\* largest bytes_limit argument tried on resize_image_bytes
MaxBytesLimit == 3
\* the remote service answers with at most this many predictions
MaxPredictions == 2
\* the longest stored image list generate_image_columns is called on
MaxGridImages == 6

(***************************************************************************)
(* Program constants.                                                      *)
(***************************************************************************)
\* PAGES_CFG["16_image_generation"]["image_upload_bytes_limit"]
IMAGE_UPLOAD_BYTES_LIMIT == 3
\* the iteration cap the specification asks of the resize loop
ResizeIterationCap == 50

SAMPLE_COUNT == <<8, 4, 2, 1>>
SAMPLE_IMAGE_SIZE == <<256, 64, 512, 1024>>
ASPECT_RATIO == <<"1:1", "5:4", "3:2", "7:4", "4:3", "16:9", "9:16">>
pre_populated_prompts == <<"an image of a cat">>

(***************************************************************************)
(* base64.b64encode / base64.b64decode                                     *)
(***************************************************************************)
B64Pad == 64

RECURSIVE b64encode(_)
b64encode(b) ==
    IF Len(b) = 0 THEN << >>
    ELSE IF Len(b) = 1 THEN
        << b[1] \div 4, (b[1] % 4) * 16, B64Pad, B64Pad >>
    ELSE IF Len(b) = 2 THEN
        << b[1] \div 4, (b[1] % 4) * 16 + (b[2] \div 16), (b[2] % 16) * 4, B64Pad >>
    ELSE
        << b[1] \div 4,
           (b[1] % 4) * 16 + (b[2] \div 16),
           (b[2] % 16) * 4 + (b[3] \div 64),
           b[3] % 64 >> \o b64encode(SubSeq(b, 4, Len(b)))

RECURSIVE b64decode(_)
b64decode(t) ==
    IF Len(t) < 4 THEN << >>
    ELSE
        LET b1 == t[1] * 4 + (t[2] \div 16)
            b2 == (t[2] % 16) * 16 + (t[3] \div 4)
            b3 == (t[3] % 4) * 64 + t[4]
        IN  IF t[3] = B64Pad THEN << b1 >>
            ELSE IF t[4] = B64Pad THEN << b1, b2 >>
            ELSE << b1, b2, b3 >> \o b64decode(SubSeq(t, 5, Len(t)))

(***************************************************************************)
(* The encoded images of the model and what PIL's Image.open makes of     *)
(* them: size (w, h), or no image at all.                                  *)
(***************************************************************************)
SmallPng == << 137, 80 >>
BigPng == << 137, 80, 78, 71, 13 >>
SmallFlat == << 137, 0 >>
BigFlat == << 137, 0, 0, 0 >>
SmallJunk == << 7 >>
BigJunk == << 7, 7, 7, 7 >>
NoBytes == << >>
GenPngA == << 137, 71 >>
GenPngB == << 137, 71, 71, 71 >>
MaskPng == << 255, 1 >>

Uploads == { SmallPng, BigPng, SmallFlat, BigFlat, SmallJunk, BigJunk, NoBytes }

\* Image.open(buffer_in): ok = FALSE when PIL cannot identify the bytes
ImageOpen(bytes_data) ==
    CASE bytes_data = SmallPng  -> [ok |-> TRUE, w |-> 4, h |-> 2]
      [] bytes_data = BigPng    -> [ok |-> TRUE, w |-> 8, h |-> 8]
      [] bytes_data = SmallFlat -> [ok |-> TRUE, w |-> 4, h |-> 0]
      [] bytes_data = BigFlat   -> [ok |-> TRUE, w |-> 4, h |-> 0]
      [] bytes_data = GenPngA   -> [ok |-> TRUE, w |-> 2, h |-> 2]
      [] bytes_data = GenPngB   -> [ok |-> TRUE, w |-> 4, h |-> 1]
      [] bytes_data = MaskPng   -> [ok |-> TRUE, w |-> 4, h |-> 2]
      [] OTHER                  -> [ok |-> FALSE, w |-> 0, h |-> 0]

\* img.save(buffer_out, format="PNG"): some n bytes of PNG
PngBytes(n) == [i \in 1..n |-> 80]

\* every size the PNG encoder may produce, whatever the pixel dimensions
EncodedSizes == 1..MaxEncodedSize

(***************************************************************************)
(* resize_image_bytes                                                      *)
(***************************************************************************)
Isqrt(n) == CHOOSE r \in 0..n : r * r <= n /\ (r + 1) * (r + 1) > n

\* lines 81-82: width / sqrt(bytes_size / (bytes_limit * 0.9)), in fixed point
NextWidth(width, bytes_size, bytes_limit) ==
    Isqrt((width * width * 9 * bytes_limit) \div (10 * bytes_size))

\* line 83 and the int() of line 85: height = width / aspect, aspect = w / h
TargetWidth(width) == width \div WidthScale
TargetHeight(width, img) == (width * img.h) \div (img.w * WidthScale)

\* Image.resize refuses a target with a side below one pixel (ValueError)
ResizeRefused(width, img) == TargetWidth(width) < 1 \/ TargetHeight(width, img) < 1

\* the state of a call after lines 74-78
ResizeEntry(bytes_data, bytes_limit) ==
    LET img == ImageOpen(bytes_data) IN
    IF ~img.ok THEN
        [pc |-> "raised", exc |-> "UnidentifiedImageError", bytes_data |-> bytes_data,
         width |-> 0, iters |-> 0]
    ELSE IF img.h = 0 THEN
        [pc |-> "raised", exc |-> "ZeroDivisionError", bytes_data |-> bytes_data,
         width |-> img.w * WidthScale, iters |-> 0]
    ELSE
        [pc |-> "loop", exc |-> "none", bytes_data |-> bytes_data,
         width |-> img.w * WidthScale, iters |-> 0]

\* a variant whose loop also runs when the size equals the limit
LoopTestAtLeast(c, bytes_limit) == Len(c.bytes_data) >= bytes_limit

\* the loop test of line 80
LoopTest(c, bytes_limit) == Len(c.bytes_data) > bytes_limit

\* line 92
ResizeReturn(c) == [c EXCEPT !.pc = "returned"]

\* one pass of the loop body, lines 81-90, the encoder producing n bytes
ResizeBody(c, img, bytes_limit, n) ==
    LET w == NextWidth(c.width, Len(c.bytes_data), bytes_limit) IN
    IF ResizeRefused(w, img) THEN
        [c EXCEPT !.pc = "raised", !.exc = "ValueError", !.width = w,
                  !.iters = c.iters + 1]
    ELSE
        [c EXCEPT !.width = w, !.bytes_data = PngBytes(n), !.iters = c.iters + 1]

\* every way the calls cs can end: the set of final call states, found by
\* running the loop of lines 80-90 on all of them, pass by pass
RECURSIVE ResizeRun(_, _, _)
ResizeRun(cs, img, bytes_limit) ==
    LET looping == { c \in cs : c.pc = "loop" }
        leaving == { c \in looping : ~LoopTest(c, bytes_limit) }
    IN  IF looping = {} THEN cs
        ELSE ResizeRun((cs \ looping)
                         \cup { ResizeReturn(c) : c \in leaving }
                         \cup { ResizeBody(c, img, bytes_limit, n) :
                                  c \in looping \ leaving, n \in EncodedSizes },
                       img, bytes_limit)

resize_image_bytes(bytes_data, bytes_limit) ==
    ResizeRun({ ResizeEntry(bytes_data, bytes_limit) }, ImageOpen(bytes_data), bytes_limit)

(***************************************************************************)
(* State.                                                                  *)
(***************************************************************************)
VARIABLES
    session,    \* st.session_state: a function from the keys present to values
    cfg,        \* the arguments the page passes to the render functions
    widgets,    \* the forms and Edit buttons currently on the page
    event,      \* the user interaction that caused the last render pass
    errors,     \* the st.error messages of the last render pass, in order
    raised,     \* the exception that escaped the last render pass, or "none"
    calls,      \* the predict_image calls of the last render pass, in order
    maskAge,    \* history of the mask slot: "none", "fresh", "dropped" or "stale"
    rz,         \* a call of resize_image_bytes on its own, statement by statement
    grid        \* a call of generate_image_columns on its own, statement by statement

vars == << session, cfg, widgets, event, errors, raised, calls, maskAge, rz, grid >>

(***************************************************************************)
(* st.session_state                                                        *)
(***************************************************************************)
Has(s, k) == k \in DOMAIN s
Put(s, k, v) == [x \in (DOMAIN s) \cup {k} |-> IF x = k THEN v ELSE s[x]]
Del(s, k) == [x \in (DOMAIN s) \ {k} |-> s[x]]
\* what a slot holds: << >> when the key is absent, << value >> otherwise
Slot(s, k) == IF Has(s, k) THEN << s[k] >> ELSE << >>
EmptySession == [x \in {} |-> 0]

\* the keys the page chooses
image_text_prompt_key == "image_text_prompt"
generated_images_key == "generated_images"
edit_image_prompt_key == "edit_image_prompt"
edited_images_key == "edited_images"
image_to_edit_key == "image_to_edit"
mask_image_key == "mask_image"
\* f"{key}_text_area"
TextArea(k) ==
    IF k = image_text_prompt_key THEN "image_text_prompt_text_area"
    ELSE "edit_image_prompt_text_area"

(***************************************************************************)
(* The remote prediction service.                                          *)
(***************************************************************************)
Prediction(i) ==
    [bytesBase64Encoded |-> b64encode(IF i % 2 = 1 THEN GenPngA ELSE GenPngB)]
Responses == { [i \in 1..n |-> Prediction(i)] : n \in 0..MaxPredictions }
\* imagen_client.predict either raises or answers with predictions
RemoteOutcomes ==
    { [ok |-> FALSE, predictions |-> << >>] }
        \cup { [ok |-> TRUE, predictions |-> p] : p \in Responses }

(***************************************************************************)
(* A render pass threads a context through the statements of the function: *)
(* once an exception is raised and not caught, the rest is skipped.        *)
(***************************************************************************)
NewPass(s) == [s |-> s, errors |-> << >>, raised |-> "none", calls |-> << >>,
               widgets |-> {}]
Ok(c) == c.raised = "none"
StError(c, msg) == [c EXCEPT !.errors = Append(@, msg)]
Raise(c, exc) == [c EXCEPT !.raised = exc]
Widget(type, key, position, edit_button, to_key) ==
    [type |-> type, key |-> key, position |-> position,
     edit_button |-> edit_button, image_to_edit_key |-> to_key]
Form(name) == Widget("form", name, 0, FALSE, "")

(***************************************************************************)
(* predict_image, image_generation, edit_image_generation                  *)
(***************************************************************************)
\* the record of one call of predict_image made on behalf of state_key
Call(fn, state_key, instance, parameters, bytes_data, mask_bytes_data, out, s, s2) ==
    [fn |-> fn, state_key |-> state_key, instance |-> instance,
     parameters |-> parameters, bytes_data |-> bytes_data,
     mask_bytes_data |-> mask_bytes_data, ok |-> out.ok,
     before |-> Slot(s, state_key), after |-> Slot(s2, state_key)]

\* a variant that stores an empty result when predict_image raises
StorePredictionsOrClear(s, state_key, out) ==
    Put(s, state_key, out.predictions)

\* st.session_state[state_key] = predict_image(...): the assignment happens
\* only when predict_image returns
StorePredictions(s, state_key, out) ==
    IF out.ok THEN Put(s, state_key, out.predictions) ELSE s

GenerationInstance(prompt) == [prompt |-> prompt]
GenerationParameters(sample_count, sample_image_size, aspect_ratio) ==
    [sampleCount |-> sample_count, sampleImageSize |-> sample_image_size,
     aspectRatio |-> aspect_ratio]

image_generation(c, prompt, sample_count, sample_image_size, aspect_ratio, state_key, out) ==
    IF ~Ok(c) THEN c
    ELSE
        LET s2 == StorePredictions(c.s, state_key, out)
            call == Call("image_generation", state_key, GenerationInstance(prompt),
                         GenerationParameters(sample_count, sample_image_size,
                                              aspect_ratio),
                         << >>, << >>, out, c.s, s2)
        IN  [c EXCEPT !.s = s2, !.calls = Append(@, call),
                      !.raised = IF out.ok THEN "none" ELSE "PredictError"]

\* a variant that always sends a mask field
EditInstanceAlwaysMask(prompt, bytes_data, mask_bytes_data) ==
    [prompt |-> prompt,
     image |-> [bytesBase64Encoded |-> b64encode(bytes_data)],
     mask |-> [image |-> [bytesBase64Encoded |-> b64encode(mask_bytes_data)]]]

EditInstance(prompt, bytes_data, mask_bytes_data) ==
    LET input_dict == [prompt |-> prompt,
                       image |-> [bytesBase64Encoded |-> b64encode(bytes_data)]]
    IN  IF mask_bytes_data # << >> THEN
            [prompt |-> input_dict.prompt, image |-> input_dict.image,
             mask |-> [image |-> [bytesBase64Encoded |-> b64encode(mask_bytes_data)]]]
        ELSE input_dict
EditParameters(sample_count) == [sampleCount |-> sample_count]

edit_image_generation(c, prompt, sample_count, bytes_data, state_key, mask_bytes_data, out) ==
    IF ~Ok(c) THEN c
    ELSE
        LET s2 == StorePredictions(c.s, state_key, out)
            call == Call("edit_image_generation", state_key,
                         EditInstance(prompt, bytes_data, mask_bytes_data),
                         EditParameters(sample_count),
                         bytes_data, mask_bytes_data, out, c.s, s2)
        IN  [c EXCEPT !.s = s2, !.calls = Append(@, call),
                      !.raised = IF out.ok THEN "none" ELSE "PredictError"]


(***************************************************************************)
(* render_one_image, generate_image_columns                                *)
(* The Download and Select buttons write none of the slots modelled here   *)
(* and are left out.  Positions count from 0 as in the code; pressed is    *)
(* the position whose Edit button the user pressed, or -1.                 *)
(***************************************************************************)
\* lines 259-261: the button is created, then its press is acted upon
EditButton(c, images_key, image_position, edit_button, to_key, image, pressed) ==
    LET c1 == [c EXCEPT !.widgets =
                   @ \cup { Widget("Edit", images_key, image_position, edit_button, to_key) }]
    IN  IF pressed = image_position /\ edit_button /\ to_key # ""
        THEN [c1 EXCEPT !.s = Put(@, to_key, image)]
        ELSE c1

render_one_image(c, images_key, image_position, edit_button, to_key, pressed) ==
    IF image_position >= Len(c.s[images_key]) THEN Raise(c, "IndexError")
    ELSE
        LET image == b64decode(c.s[images_key][image_position + 1].bytesBase64Encoded)
        IN  EditButton(c, images_key, image_position, edit_button, to_key, image, pressed)

\* lines 296-306: try: render_one_image(...) except: continue
TryRenderOne(c, images_key, image_position, edit_button, to_key, pressed) ==
    LET r == render_one_image(c, images_key, image_position, edit_button, to_key, pressed)
    IN  IF Ok(r) THEN r ELSE c

\* lines 294-306: the four columns of one row
RECURSIVE RenderRow(_, _, _, _, _, _, _)
RenderRow(c, images_key, i, counter, edit_button, to_key, pressed) ==
    IF i >= 4 THEN c
    ELSE RenderRow(TryRenderOne(c, images_key, i + counter, edit_button, to_key, pressed),
                   images_key, i + 1, counter, edit_button, to_key, pressed)

\* line 292, a loop test that asks for a full row of images
WhileFullRow(image_count) == image_count >= 4
\* line 292: while image_count > 0
WhileImages(image_count) == image_count > 0

\* lines 292-308: one row per turn of the loop
RECURSIVE RenderRows(_, _, _, _, _, _, _)
RenderRows(c, images_key, counter, image_count, edit_button, to_key, pressed) ==
    IF ~WhileImages(image_count) THEN c
    ELSE RenderRows(RenderRow(c, images_key, 0, counter, edit_button, to_key, pressed),
                    images_key, counter + 4, image_count - 4, edit_button, to_key, pressed)

generate_image_columns(c, images_key, edit_button, to_key, pressed) ==
    IF ~Ok(c) THEN c
    ELSE RenderRows(c, images_key, 0, Len(c.s[images_key]), edit_button, to_key, pressed)

(***************************************************************************)
(* The user's interactions.  A form submit carries the text typed into the *)
(* form's text area; Streamlit stores it under the widget's key and runs   *)
(* the on_click callback before the script runs again.                     *)
(***************************************************************************)
Event(fn, kind, prompt) == [fn |-> fn, kind |-> kind, prompt |-> prompt]
CustomPrompts == { "", "a dog" }
EditPrompts == { "", "make it blue" }
\* the choices of the selectboxes that the model tries
SampleCountChoices == { SAMPLE_COUNT[1], SAMPLE_COUNT[4] }
SampleImageSizeChoices == { SAMPLE_IMAGE_SIZE[1] }
AspectRatioChoices == { ASPECT_RATIO[1] }

\* lines 354-356 and 475-477: def submitted()
submitted(s, key, typed) ==
    LET s1 == Put(s, TextArea(key), typed) IN Put(s1, key, s1[TextArea(key)])

\* lines 358-361 and 479-482
RestoreTextArea(c, key) ==
    IF Has(c.s, key) THEN [c EXCEPT !.s = Put(@, TextArea(key), c.s[key])] ELSE c

\* st.text_area(key=...): a widget new to the session starts empty
StTextArea(c, key) ==
    IF Has(c.s, TextArea(key)) THEN c ELSE [c EXCEPT !.s = Put(@, TextArea(key), "")]

AddWidget(c, w) == [c EXCEPT !.widgets = @ \cup { w }]

(***************************************************************************)
(* render_image_generation_ui                                              *)
(***************************************************************************)
\* lines 395-411
GenSubmitted(c, select_prompt, sample_count, sample_image_size, aspect_ratio, out) ==
    LET image_custom_prompt == c.s[TextArea(image_text_prompt_key)]
        c1 == IF image_custom_prompt # ""
              THEN [c EXCEPT !.s = Put(@, image_text_prompt_key, image_custom_prompt)]
              ELSE c
        question == IF image_custom_prompt # "" THEN image_custom_prompt ELSE select_prompt
        r == image_generation(c1, question, sample_count, sample_image_size, aspect_ratio, generated_images_key, out)
    IN  IF Ok(r) THEN r
        ELSE StError([r EXCEPT !.raised = "none"],
                     "Could not generate image. Try a different prompt.")

\* lines 413-421
GenAutoSubmit(c, out) ==
    IF Ok(c) /\ cfg.auto_submit_first_pre_populated /\ ~Has(c.s, generated_images_key)
    THEN image_generation(c, pre_populated_prompts[1], SAMPLE_COUNT[1], SAMPLE_IMAGE_SIZE[1], ASPECT_RATIO[1], generated_images_key, out)
    ELSE c

\* lines 423-430
GenGallery(c, pressed) ==
    IF Ok(c) /\ Has(c.s, generated_images_key)
    THEN generate_image_columns(c, generated_images_key, cfg.edit_button, cfg.image_to_edit_key, pressed)
    ELSE c

\* lines 358-393
GenForm(s) ==
    AddWidget(StTextArea(RestoreTextArea(NewPass(s), image_text_prompt_key),
                         image_text_prompt_key),
              Form("image_form"))

render_image_generation_ui(s, submit_prompt, select_prompt, sample_count, sample_image_size, aspect_ratio, pressed, out1, out2) ==
    LET c1 == GenForm(s)
        c2 == IF submit_prompt
              THEN GenSubmitted(c1, select_prompt, sample_count, sample_image_size, aspect_ratio, out1)
              ELSE c1
        c3 == GenAutoSubmit(c2, out2)
    IN  GenGallery(c3, pressed)


(***************************************************************************)
(* render_image_edit_prompt                                                *)
(***************************************************************************)
\* a variant that leaves the stored mask in place
EditUploadKeepsMask(c, submit_button_uploader, uploaded) ==
    IF ~cfg.upload_file THEN c
    ELSE
        LET c1 == [c EXCEPT !.widgets = @ \cup { Form("upload_form") }] IN
        IF submit_button_uploader /\ uploaded # << >>
        THEN [c1 EXCEPT !.s = Put(@, image_to_edit_key, uploaded[1])]
        ELSE c1

\* lines 484-495; uploaded is << >> when no file was chosen, << file >> otherwise
EditUpload(c, submit_button_uploader, uploaded) ==
    IF ~cfg.upload_file THEN c
    ELSE
        LET c1 == AddWidget(c, Form("upload_form")) IN
        IF submit_button_uploader /\ uploaded # << >> THEN
            LET s1 == Put(c1.s, image_to_edit_key, uploaded[1]) IN
            IF cfg.mask_image /\ Has(s1, mask_image_key)
            THEN [c1 EXCEPT !.s = Del(s1, mask_image_key)]
            ELSE [c1 EXCEPT !.s = s1]
        ELSE c1

\* utils_edit_image.edit_image_canvas(mask_image_key, background): the canvas
\* stores what the user painted under mask_image_key
edit_image_canvas(c, painted) ==
    LET c1 == AddWidget(c, Form("canvas")) IN
    IF painted # << >> THEN [c1 EXCEPT !.s = Put(@, mask_image_key, painted[1])] ELSE c1

\* st.image(bytes): Streamlit may refuse bytes that are no image
StImage(c, bytes_data, st_image_raises) ==
    IF ~ImageOpen(bytes_data).ok /\ st_image_raises
    THEN Raise(c, "UnidentifiedImageError") ELSE c

\* the outcome rs of resize_image_bytes as seen by its caller: what it raised
\* or the bytes it returned
Outcome(c) == [pc |-> c.pc, exc |-> c.exc, bytes_data |-> c.bytes_data]
Resized(c, rs) == IF rs.pc = "raised" THEN Raise(c, rs.exc) ELSE c

\* lines 498-505
EditShowImage(c, rs, painted, st_image_raises) ==
    IF cfg.mask_image THEN
        LET c1 == Resized(c, rs) IN
        IF Ok(c1) THEN edit_image_canvas(c1, painted) ELSE c1
    ELSE StImage(c, c.s[image_to_edit_key], st_image_raises)

\* line 540: the mask argument
MaskArgument(s) ==
    IF cfg.mask_image /\ mask_image_key # "" /\ Has(s, mask_image_key)
    THEN s[mask_image_key] ELSE << >>

\* lines 532-543
EditRequest(c, edit_image_prompt, sample_count, bytes_data, out) ==
    LET c1 == [c EXCEPT !.s = Put(@, edit_image_prompt_key, edit_image_prompt)]
        r == edit_image_generation(c1, c1.s[edit_image_prompt_key], sample_count, bytes_data, edited_images_key, MaskArgument(c1.s), out)
    IN  IF Ok(r) THEN r
        ELSE StError(StError([r EXCEPT !.raised = "none"], "PredictError"),
                     "Could not edit image. Try a different prompt.")

\* a variant that sends the request without looking at the prompt
EditSubmittedAnyPrompt(c, sample_count, rs, out) ==
    LET bytes_data == c.s[image_to_edit_key]
        edit_image_prompt == c.s[TextArea(edit_image_prompt_key)]
    IN  IF bytes_data # << >> THEN
            LET c1 == IF Len(bytes_data) > IMAGE_UPLOAD_BYTES_LIMIT THEN Resized(c, rs) ELSE c
                sent == IF Len(bytes_data) > IMAGE_UPLOAD_BYTES_LIMIT
                        THEN rs.bytes_data ELSE bytes_data
            IN  IF ~Ok(c1) THEN c1
                ELSE EditRequest(c1, edit_image_prompt, sample_count, sent, out)
        ELSE StError(c, "No image found to edit")

\* lines 522-545
EditSubmitted(c, sample_count, rs, out) ==
    LET bytes_data == c.s[image_to_edit_key]
        edit_image_prompt == c.s[TextArea(edit_image_prompt_key)]
    IN  IF bytes_data # << >> THEN
            LET c1 == IF Len(bytes_data) > IMAGE_UPLOAD_BYTES_LIMIT THEN Resized(c, rs) ELSE c
                sent == IF Len(bytes_data) > IMAGE_UPLOAD_BYTES_LIMIT
                        THEN rs.bytes_data ELSE bytes_data
            IN  IF ~Ok(c1) THEN c1
                ELSE IF edit_image_prompt = ""
                THEN StError(c1, "Provide a prompt for editing the image")
                ELSE EditRequest(c1, edit_image_prompt, sample_count, sent, out)
        ELSE StError(c, "No image found to edit")

\* lines 497-545
EditSection(c, submit_button, sample_count, rs, painted, st_image_raises, out) ==
    IF ~Has(c.s, image_to_edit_key) THEN c
    ELSE
        LET c1 == EditShowImage(c, rs, painted, st_image_raises) IN
        IF ~Ok(c1) THEN c1
        ELSE
            LET c2 == AddWidget(StTextArea(c1, edit_image_prompt_key),
                                Form("edit_image_form"))
            IN  IF submit_button THEN EditSubmitted(c2, sample_count, rs, out) ELSE c2

\* lines 547-552: edit_button keeps its default True, image_to_edit_key its default ""
EditGallery(c, pressed) ==
    IF Ok(c) /\ Has(c.s, edited_images_key)
    THEN generate_image_columns(c, edited_images_key, TRUE, "", pressed)
    ELSE c

\* lines 479-495
EditHead(s, submit_button_uploader, uploaded) ==
    EditUpload(RestoreTextArea(NewPass(s), edit_image_prompt_key), submit_button_uploader, uploaded)

\* the calls of resize_image_bytes in a pass all have the same arguments; the
\* encoder is a function of them, so they all end the same way
NoResize == [pc |-> "none", exc |-> "none", bytes_data |-> << >>]
ResizeOutcomes(c, submit_button) ==
    IF Has(c.s, image_to_edit_key)
       /\ (cfg.mask_image
           \/ (submit_button /\ Len(c.s[image_to_edit_key]) > IMAGE_UPLOAD_BYTES_LIMIT))
    THEN { Outcome(r) : r \in resize_image_bytes(c.s[image_to_edit_key], IMAGE_UPLOAD_BYTES_LIMIT) }
    ELSE { NoResize }

\* whether st.image is reached with bytes it may refuse
StImageOutcomes(c) ==
    IF Has(c.s, image_to_edit_key) /\ ~cfg.mask_image
       /\ ~ImageOpen(c.s[image_to_edit_key]).ok
    THEN BOOLEAN ELSE { FALSE }

render_image_edit_prompt(c, submit_button, sample_count, rs, painted, st_image_raises, pressed, out) ==
    EditGallery(EditSection(c, submit_button, sample_count, rs, painted, st_image_raises, out), pressed)


(***************************************************************************)
(* The render passes as actions.                                           *)
(***************************************************************************)
GenFn == "render_image_generation_ui"
EditFn == "render_image_edit_prompt"

\* A page calls one of the two render functions, with arguments of its choice.
Configs ==
    [page : { GenFn }, auto_submit_first_pre_populated : BOOLEAN,
     edit_button : BOOLEAN, image_to_edit_key : { "", image_to_edit_key },
     mask_image : { FALSE }, upload_file : { TRUE }]
    \cup
    [page : { EditFn }, auto_submit_first_pre_populated : { FALSE },
     edit_button : { FALSE }, image_to_edit_key : { image_to_edit_key },
     mask_image : BOOLEAN, upload_file : BOOLEAN]
\* the widgets render_image_generation_ui puts on the page
OfGen(w) == w.key \in { "image_form", generated_images_key }
NoPress == 0 - 1

IdleGrid ==
    [pc |-> "idle", images_key |-> "", edit_button |-> FALSE, image_to_edit_key |-> "",
     pressed |-> NoPress, c |-> NewPass(EmptySession), image_count |-> 0, counter |-> 0,
     i |-> 0, rows |-> 0, attempts |-> << >>]

IdleResize == [input |-> << >>, bytes_limit |-> 0, c |-> [pc |-> "idle", exc |-> "none", bytes_data |-> << >>, width |-> 0, iters |-> 0]]

\* the page after a pass of fn that ended in context c
Shown(fn, c) ==
    { w \in widgets : IF fn = GenFn THEN ~OfGen(w) ELSE OfGen(w) } \cup c.widgets

Commit(fn, c, ev, age) ==
    /\ session' = c.s
    /\ errors' = c.errors
    /\ raised' = c.raised
    /\ calls' = c.calls
    /\ widgets' = Shown(fn, c)
    /\ event' = ev
    /\ maskAge' = age
    /\ UNCHANGED << cfg, rz, grid >>

\* The history of the mask slot: "fresh" once the canvas stored a mask,
\* "dropped" once an upload removed the mask that was there, "stale" once an
\* upload left the mask that was there in place.
AgeAfterUpload(c) ==
    IF ~Has(session, mask_image_key) THEN maskAge
    ELSE IF Has(c.s, mask_image_key) THEN "stale" ELSE "dropped"
AgeAfterPaint(c) == IF Form("canvas") \in c.widgets THEN "fresh" ELSE maskAge

\* the answers of the remote service that a pass can meet: one per predict call
NoOutcome == [ok |-> FALSE, predictions |-> << >>]
OutcomesIf(called) == IF called THEN RemoteOutcomes ELSE { NoOutcome }
\* line 414 is reached with the slot still absent
AutoSubmits(s, submit_prompt, out1) ==
    /\ cfg.auto_submit_first_pre_populated
    /\ ~Has(s, generated_images_key)
    /\ submit_prompt => ~out1.ok

\* the script runs again with no widget of the form or gallery touched
GenRerun ==
    /\ cfg.page = GenFn
    /\ \E out2 \in OutcomesIf(AutoSubmits(session, FALSE, NoOutcome)) :
        LET c == render_image_generation_ui(session, FALSE, pre_populated_prompts[1], SAMPLE_COUNT[1], SAMPLE_IMAGE_SIZE[1], ASPECT_RATIO[1], NoPress, out2, out2)
        IN  Commit(GenFn, c, Event(GenFn, "rerun", ""), maskAge)

\* the user presses Submit of image_form
GenSubmit ==
    /\ Form("image_form") \in widgets
    /\ \E typed \in CustomPrompts, sample_count \in SampleCountChoices,
          sample_image_size \in SampleImageSizeChoices,
          aspect_ratio \in AspectRatioChoices,
          out1 \in RemoteOutcomes :
      \E out2 \in OutcomesIf(AutoSubmits(session, TRUE, out1)) :
        LET s0 == submitted(session, image_text_prompt_key, typed)
            c == render_image_generation_ui(s0, TRUE, pre_populated_prompts[1], sample_count, sample_image_size, aspect_ratio, NoPress, out1, out2)
        IN  Commit(GenFn, c, Event(GenFn, "submit", typed), maskAge)

\* the user presses the Edit button of a generated image
GenPressEdit ==
    \E w \in widgets, out2 \in OutcomesIf(AutoSubmits(session, FALSE, NoOutcome)) :
        /\ w.type = "Edit" /\ w.key = generated_images_key
        /\ LET c == render_image_generation_ui(session, FALSE, pre_populated_prompts[1], SAMPLE_COUNT[1], SAMPLE_IMAGE_SIZE[1], ASPECT_RATIO[1], w.position, out2, out2)
           IN  Commit(GenFn, c, Event(GenFn, "press_edit", ""), maskAge)

\* a pass of render_image_edit_prompt from the context c0 of its first lines
EditPass(c0, ev, submit_button, painted, pressed) ==
    \E rs \in ResizeOutcomes(c0, submit_button),
       st_image_raises \in StImageOutcomes(c0),
       sample_count \in SampleCountChoices, out \in OutcomesIf(submit_button) :
        LET c == render_image_edit_prompt(c0, submit_button, sample_count, rs, painted, st_image_raises, pressed, out)
        IN  Commit(EditFn, c, ev,
                   IF ev.kind = "upload" THEN AgeAfterUpload(c)
                   ELSE IF ev.kind = "paint" THEN AgeAfterPaint(c)
                   ELSE maskAge)

EditRerun ==
    /\ cfg.page = EditFn
    /\ EditPass(EditHead(session, FALSE, << >>), Event(EditFn, "rerun", ""),
             FALSE, << >>, NoPress)

\* the user presses Upload Image, with a file chosen or without
EditUploadImage ==
    /\ Form("upload_form") \in widgets
    /\ \E uploaded \in { << >> } \cup { << f >> : f \in Uploads } :
        EditPass(EditHead(session, TRUE, uploaded),
                 Event(EditFn, IF uploaded = << >> THEN "upload_nothing" ELSE "upload", ""),
                 FALSE, << >>, NoPress)

\* the user paints on the canvas
EditPaint ==
    /\ Form("canvas") \in widgets
    /\ EditPass(EditHead(session, FALSE, << >>), Event(EditFn, "paint", ""),
                FALSE, << MaskPng >>, NoPress)

\* the user presses Edit Image of the edit form
EditSubmit ==
    /\ Form("edit_image_form") \in widgets
    /\ \E typed \in EditPrompts :
        EditPass(EditHead(submitted(session, edit_image_prompt_key, typed), FALSE, << >>),
                 Event(EditFn, "submit", typed), TRUE, << >>, NoPress)

\* the user presses the Edit button of an edited image
EditPressEdit ==
    \E w \in widgets :
        /\ w.type = "Edit" /\ w.key = edited_images_key
        /\ EditPass(EditHead(session, FALSE, << >>), Event(EditFn, "press_edit", ""),
                    FALSE, << >>, w.position)

Init ==
    /\ session = EmptySession
    /\ cfg \in Configs
    /\ widgets = {}
    /\ event = Event("none", "none", "")
    /\ errors = << >>
    /\ raised = "none"
    /\ calls = << >>
    /\ maskAge = "none"
    /\ rz = IdleResize
    /\ grid = IdleGrid

Next ==
    \/ GenRerun
    \/ GenSubmit
    \/ GenPressEdit
    \/ EditRerun
    \/ EditUploadImage
    \/ EditPaint
    \/ EditSubmit
    \/ EditPressEdit

Spec == Init /\ [][Next]_vars


(***************************************************************************)
(* resize_image_bytes on its own: one call, statement by statement, on     *)
(* every image of the model and every ceiling up to MaxBytesLimit.         *)
(***************************************************************************)
ResizeInputs == Uploads \cup { GenPngA, GenPngB, MaskPng }
BytesLimits == 1..MaxBytesLimit

ResizeCall(bytes_data, bytes_limit) ==
    [input |-> bytes_data, bytes_limit |-> bytes_limit,
     c |-> [pc |-> "start", exc |-> "none", bytes_data |-> bytes_data,
            width |-> 0, iters |-> 0]]

\* lines 74-78
ResizeOpen ==
    /\ rz.c.pc = "start"
    /\ rz' = [rz EXCEPT !.c = ResizeEntry(rz.input, rz.bytes_limit)]
    /\ UNCHANGED << session, cfg, widgets, event, errors, raised, calls, maskAge, grid >>

\* lines 80-90: the loop test holds and the body runs once
ResizeIterate ==
    /\ rz.c.pc = "loop"
    /\ LoopTest(rz.c, rz.bytes_limit)
    /\ \E n \in EncodedSizes :
        rz' = [rz EXCEPT !.c = ResizeBody(rz.c, ImageOpen(rz.input), rz.bytes_limit, n)]
    /\ UNCHANGED << session, cfg, widgets, event, errors, raised, calls, maskAge, grid >>

\* lines 80 and 92: the loop test fails and the function returns
ResizeExit ==
    /\ rz.c.pc = "loop"
    /\ ~LoopTest(rz.c, rz.bytes_limit)
    /\ rz' = [rz EXCEPT !.c = ResizeReturn(rz.c)]
    /\ UNCHANGED << session, cfg, widgets, event, errors, raised, calls, maskAge, grid >>

InitResize ==
    /\ session = EmptySession
    /\ cfg = [page |-> "none", auto_submit_first_pre_populated |-> FALSE,
              edit_button |-> FALSE, image_to_edit_key |-> "",
              mask_image |-> FALSE, upload_file |-> FALSE]
    /\ widgets = {}
    /\ event = Event("none", "none", "")
    /\ errors = << >>
    /\ raised = "none"
    /\ calls = << >>
    /\ maskAge = "none"
    /\ rz \in { ResizeCall(b, l) : b \in ResizeInputs, l \in BytesLimits }
    /\ grid = IdleGrid

NextResize ==
    \/ ResizeOpen
    \/ ResizeIterate
    \/ ResizeExit

SpecResize == InitResize /\ [][NextResize]_vars


(***************************************************************************)
(* generate_image_columns on its own: one call, statement by statement, on *)
(* every stored list of up to MaxGridImages images, with every cell's Edit *)
(* button pressed in turn.  grid.rows counts the st.columns calls and      *)
(* grid.attempts logs the calls of render_one_image in the order made.     *)
(***************************************************************************)
StoredImages(n) == [k \in 1..n |-> Prediction(k)]
GridPresses(n) == { NoPress } \cup (0..(n - 1))

GridCall(s, images_key, edit_button, to_key, pressed) ==
    [pc |-> "start", images_key |-> images_key, edit_button |-> edit_button,
     image_to_edit_key |-> to_key, pressed |-> pressed, c |-> NewPass(s),
     image_count |-> 0, counter |-> 0, i |-> 0, rows |-> 0, attempts |-> << >>]

\* one call of render_one_image as line 297 makes it
GridRender(g, image_position) ==
    render_one_image(g.c, g.images_key, image_position, g.edit_button, g.image_to_edit_key, g.pressed)
GridTry(g, image_position) ==
    TryRenderOne(g.c, g.images_key, image_position, g.edit_button, g.image_to_edit_key, g.pressed)
Attempt(g, image_position) ==
    [row |-> g.rows - 1, col |-> g.i, index |-> image_position,
     swallowed |-> ~Ok(GridRender(g, image_position)) /\ Ok(GridTry(g, image_position))]

\* lines 290-291
GridEnter ==
    /\ grid.pc = "start"
    /\ grid' = [grid EXCEPT !.image_count = Len(grid.c.s[grid.images_key]),
                            !.counter = 0, !.pc = "while"]
    /\ UNCHANGED << session, cfg, widgets, event, errors, raised, calls, maskAge, rz >>

\* lines 292-293: the loop test holds and st.columns creates a row of four
GridColumns ==
    /\ grid.pc = "while"
    /\ WhileImages(grid.image_count)
    /\ grid' = [grid EXCEPT !.rows = @ + 1, !.i = 0, !.pc = "for"]
    /\ UNCHANGED << session, cfg, widgets, event, errors, raised, calls, maskAge, rz >>

\* lines 294-306: the next column of the row; an exception the try does not
\* swallow would end the call
GridCell ==
    /\ grid.pc = "for"
    /\ grid.i < 4
    /\ LET c1 == GridTry(grid, grid.i + grid.counter)
       IN  grid' = [grid EXCEPT !.c = c1,
                                !.attempts = Append(@, Attempt(grid, grid.i + grid.counter)),
                                !.i = @ + 1,
                                !.pc = IF Ok(c1) THEN "for" ELSE "raised"]
    /\ UNCHANGED << session, cfg, widgets, event, errors, raised, calls, maskAge, rz >>

\* lines 307-308: the row is complete
GridAdvance ==
    /\ grid.pc = "for"
    /\ grid.i >= 4
    /\ grid' = [grid EXCEPT !.counter = @ + 4, !.image_count = @ - 4, !.pc = "while"]
    /\ UNCHANGED << session, cfg, widgets, event, errors, raised, calls, maskAge, rz >>

\* line 292: the loop test fails and the function returns
GridReturn ==
    /\ grid.pc = "while"
    /\ ~WhileImages(grid.image_count)
    /\ grid' = [grid EXCEPT !.pc = "done"]
    /\ UNCHANGED << session, cfg, widgets, event, errors, raised, calls, maskAge, rz >>

\* the generation page's call on line 430, on a session that holds n images
InitGrid ==
    /\ \E n \in 0..MaxGridImages :
        /\ session = Put(EmptySession, generated_images_key, StoredImages(n))
        /\ cfg \in { f \in Configs : f.page = GenFn /\ ~f.auto_submit_first_pre_populated }
        /\ \E pressed \in GridPresses(n) :
            grid = GridCall(session, generated_images_key, cfg.edit_button, cfg.image_to_edit_key, pressed)
    /\ widgets = {}
    /\ event = Event("none", "none", "")
    /\ errors = << >>
    /\ raised = "none"
    /\ calls = << >>
    /\ maskAge = "none"
    /\ rz = IdleResize

NextGrid ==
    \/ GridEnter
    \/ GridColumns
    \/ GridCell
    \/ GridAdvance
    \/ GridReturn

SpecGrid == InitGrid /\ [][NextGrid]_vars


(***************************************************************************)
(* Properties.                                                             *)
(***************************************************************************)
Failed(cs) == { i \in DOMAIN cs : ~cs[i].ok }
Finished == rz.c.pc \in { "returned", "raised" }
\* PIL opens the bytes and the image has a height to divide by
ValidImage(bytes_data) == ImageOpen(bytes_data).ok /\ ImageOpen(bytes_data).h > 0

\* C1: a generate or edit request whose predict call fails leaves the session
\* slot state_key as it was before the request: the same set if it held one,
\* absent if it was absent.
C1_FailedRequestKeepsSlot ==
    \A i \in Failed(calls) : calls[i].after = calls[i].before

\* a failed request on a slot that held a non-empty set of images, which the
\* session still holds
C1_Witness ==
    \E i \in Failed(calls) :
        /\ calls[i].before # << >>
        /\ Len(calls[i].before[1]) > 0
        /\ session[calls[i].state_key] = calls[i].before[1]

\* C2: every failed request surfaces exactly one failure report in its pass
\* (an st.error message, or the exception itself when nothing catches it).
FailureReports == Len(errors) + (IF raised = "PredictError" THEN 1 ELSE 0)
C2_ExactlyOneFailureReport ==
    calls # << >> => FailureReports = Cardinality(Failed(calls))

\* C3: on an image larger than the ceiling resize_image_bytes ends within the
\* iteration cap by returning bytes no larger than the ceiling.
C3_ResizeFitsCeiling ==
    (Finished /\ ValidImage(rz.input) /\ Len(rz.input) > rz.bytes_limit)
        => /\ rz.c.pc = "returned"
           /\ Len(rz.c.bytes_data) <= rz.bytes_limit
           /\ rz.c.iters <= ResizeIterationCap

\* C4: a render pass calls predict at most once, and never again after a
\* predict call of the pass has failed.
C4_AtMostOnePredictPerPass ==
    /\ Len(calls) <= 1
    /\ \A i \in DOMAIN calls : i > 1 => calls[i - 1].ok

\* C5: while the stored image to edit is no image, or an image of height 0, no
\* pass of the edit flow calls predict or divides by zero, and a submit is
\* answered with an error.
InvalidImageStored ==
    /\ event.fn = EditFn
    /\ Has(session, image_to_edit_key)
    /\ session[image_to_edit_key] # << >>
    /\ ~ValidImage(session[image_to_edit_key])
C5_InvalidImageRejected ==
    InvalidImageStored
        => /\ calls = << >>
           /\ raised # "ZeroDivisionError"
           /\ event.kind = "submit" => (errors # << >> \/ raised # "none")

\* C6: an edit submit with an empty prompt calls predict not at all and
\* leaves the edited-images slot as it was.
EmptyPromptSubmit(ev) == ev.fn = EditFn /\ ev.kind = "submit" /\ ev.prompt = ""
C6_EmptyPromptRejected ==
    [][EmptyPromptSubmit(event')
         => /\ calls' = << >>
            /\ Slot(session', edited_images_key) = Slot(session, edited_images_key)]_vars

\* an empty-prompt submit on an image above the ceiling, with edited images stored
C6_Witness ==
    /\ EmptyPromptSubmit(event)
    /\ Has(session, image_to_edit_key)
    /\ Len(session[image_to_edit_key]) > IMAGE_UPLOAD_BYTES_LIMIT
    /\ Has(session, edited_images_key)
    /\ errors = << "Provide a prompt for editing the image" >>

\* C7: on an input no larger than the ceiling resize_image_bytes runs its loop
\* body not once, returns nothing but its input, and returns whenever the
\* input is an image PIL opens with a height above 0.
C7_SmallInputUnchanged ==
    (Finished /\ Len(rz.input) <= rz.bytes_limit)
        => /\ rz.c.iters = 0
           /\ rz.c.pc = "returned" => rz.c.bytes_data = rz.input
           /\ ValidImage(rz.input) => rz.c.pc = "returned"

\* a returned call on an input of exactly the ceiling's size
C7_Witness ==
    /\ rz.c.pc = "returned"
    /\ Len(rz.input) = rz.bytes_limit
    /\ rz.c.bytes_data = rz.input

\* C8: the instance of an edit request has no mask field when mask_bytes_data
\* is empty, has the mask's base64 under mask.image.bytesBase64Encoded when it
\* is not, and the parameters hold sampleCount alone.
EditCalls == { i \in DOMAIN calls : calls[i].fn = "edit_image_generation" }
C8_MaskFieldOnlyWithMask ==
    \A i \in EditCalls :
        /\ DOMAIN calls[i].parameters = { "sampleCount" }
        /\ calls[i].mask_bytes_data = << >>
             => DOMAIN calls[i].instance = { "prompt", "image" }
        /\ calls[i].mask_bytes_data # << >>
             => /\ DOMAIN calls[i].instance = { "prompt", "image", "mask" }
                /\ DOMAIN calls[i].instance.mask = { "image" }
                /\ DOMAIN calls[i].instance.mask.image = { "bytesBase64Encoded" }
                /\ b64decode(calls[i].instance.mask.image.bytesBase64Encoded)
                     = calls[i].mask_bytes_data

\* an edit request that carries a mask
C8_Witness ==
    \E i \in EditCalls :
        /\ calls[i].mask_bytes_data = MaskPng
        /\ "mask" \in DOMAIN calls[i].instance

\* C9: every Edit button on the page was rendered with edit_button true and a
\* non-empty image_to_edit_key.
C9_EditButtonOnlyWhenEnabled ==
    \A w \in widgets :
        w.type = "Edit" => (w.edit_button /\ w.image_to_edit_key # "")

GridImages == Len(session[generated_images_key])
GridRows == (GridImages + 3) \div 4
\* the positions whose image and buttons are on the page
Rendered == { w.position : w \in { x \in grid.c.widgets : x.type = "Edit" } }

\* C11: on a stored list of n >= 0 images generate_image_columns ends after
\* exactly ceil(n/4) rows of 4 columns; the k-th call of render_one_image is
\* for index k-1, made in row r and column c with index = 4*r+c, so every
\* index 0..n-1 is attempted exactly once in ascending order; the attempts at
\* indices >= n in the last row fail, the failure is swallowed, and no attempt
\* stops the call or the rendering of any image.
C11_GridAttemptsEveryIndexOnce ==
    /\ grid.pc # "raised"
    /\ grid.rows <= GridRows
    /\ \A k \in DOMAIN grid.attempts :
        LET a == grid.attempts[k]
        IN  /\ a.index = k - 1
            /\ a.col \in 0..3
            /\ a.row \in 0..(grid.rows - 1)
            /\ a.index = 4 * a.row + a.col
            /\ a.swallowed = (a.index >= GridImages)
    /\ Rendered = { grid.attempts[k].index : k \in { j \in DOMAIN grid.attempts : ~grid.attempts[j].swallowed } }
    /\ grid.pc = "done" =>
        /\ grid.rows = GridRows
        /\ Len(grid.attempts) = 4 * GridRows
        /\ Rendered = 0..(GridImages - 1)
    /\ grid.pc \in { "start", "while", "for" } => ENABLED NextGrid

\* a finished call on a list that ends in a partial second row: the attempts
\* past the end were swallowed and the image after the first row is rendered
C11_Witness ==
    /\ grid.pc = "done"
    /\ GridImages = 5
    /\ grid.rows = 2
    /\ Len(grid.attempts) = 8
    /\ grid.attempts[6].swallowed /\ grid.attempts[8].swallowed
    /\ ~grid.attempts[5].swallowed
    /\ 4 \in Rendered

====
